---- MODULE Spec2Model ----
(***************************************************************************)
(* Model of goblin/gremlin_python_driver/driver.py: the connection pool    *)
(* (Driver), its channels (Connection) and the response streams            *)
(* (AsyncResponseIter) that read server frames off a channel.              *)
(*                                                                         *)
(* Channels are numbered in creation order: channel c is conns[c].         *)
(* Streams are numbered in creation order: stream s is streams[s].         *)
(* Python's None is modelled by 0 for a channel reference and by NoneMsg   *)
(* for a queue entry.                                                      *)
(***************************************************************************)
EXTENDS Integers, Sequences, FiniteSets, TLC

\* ---------------------------------------------------------------- bounds
\* Driver._max_connections is 32 in the code (driver.py:31); the model runs
\* the same comparisons against a pool scaled down to this size.
max_connections == 1
\* Streams (submitted requests) created in one run of the pool.
MaxStreams == 1
\* Frames the server sends in one run of the pool, over all channels.
PoolFrames == 1
\* Frames the server sends to the one stream of a single-request run.
MaxFrames == 3
\* Tasks that call Driver.connect concurrently in a run of racing connects.
MaxTasks == 3

\* Channels the transport ever opens in one run: enough to pass the limit.
MaxChans == max_connections + 1

\* ------------------------------------------------------------- constants
\* Status codes of a server frame; 500 stands for every code that is none of
\* 200, 204, 206, 407.
Codes == {200, 204, 206, 407, 500}
Flags == BOOLEAN
Processors == {"", "session"}
Sessions == {"None", "", "s1"}

\* A queue entry: a Message (status code, payload) or None.  The payload of
\* the n-th frame a stream read is n.
Msg(code, n) == [code |-> code, n |-> n]
NoneMsg == [code |-> 0, n |-> 0]

VARIABLES
    connecting,      \* Driver._connecting
    open,            \* Driver._open_connections
    reclaimed,       \* Driver._reclaimed: sequence of channel ids
    client_session,  \* Driver._client_session is set (TRUE) or None (FALSE)
    conns,           \* the Connection objects, in creation order
    streams,         \* the AsyncResponseIter objects, in creation order
    held,            \* channels handed to a caller by connect/recycle and not
                     \* yet given back through reclaim
    result,          \* outcome of the last call a caller made: the call, the
                     \* exception it raised ("none" when it returned) and the
                     \* channel connect or recycle returned
    tasks            \* where each concurrent Driver.connect coroutine stands

vars == <<connecting, open, reclaimed, client_session, conns, streams, held,
          result, tasks>>

Tasks == 1..MaxTasks

Chans == 1..Len(conns)
Strms == 1..Len(streams)

RECURSIVE SumLen(_, _)
SumLen(seq, i) == IF i = 0 THEN 0 ELSE Len(seq[i].frames) + SumLen(seq, i - 1)
\* Frames the server has sent so far.
FramesSent == SumLen(streams, Len(streams))

InQueue(c) == \E i \in 1..Len(reclaimed) : reclaimed[i] = c

\* Driver.total_connections
total_connections(w) == w.connecting + w.open

\* The part of the state a call into the pool can change, as one record:
\* the callee operators below map a world to a world.  strm is the stream
\* the call runs for (its _closed and _conn fields), err the exception that
\* escaped ("none" when the call returned).
World(s) ==
    [connecting |-> connecting, open |-> open, reclaimed |-> reclaimed,
     conns |-> conns, sclosed |-> s.closed, sconn |-> s.conn, err |-> "none"]

NoStream == [closed |-> FALSE, conn |-> 0]

\* Connection.__init__.  dropped is the transport's own state: the peer
\* disconnected or the transport failed; Connection.closed does not read it.
NewConn(fc, rc) ==
    [closed |-> FALSE, force_close |-> fc, recycle |-> rc, driver |-> TRUE,
     sent |-> <<>>, dropped |-> FALSE]

\* AsyncResponseIter.__init__
NewStream(c) ==
    [ws |-> c, conn |-> c, closed |-> FALSE, queue |-> <<>>, pc |-> "idle",
     parsing |-> 0, frames |-> <<>>, emitted |-> <<>>, disp |-> <<>>,
     taskErr |-> "none", cut |-> FALSE]

\* Connection.close: closes the transport, sets _closed, then reaches the
\* pool through self.driver, which is None after a first close.
ConnClose(w, c) ==
    LET w1 == [w EXCEPT !.conns[c].closed = TRUE]
    IN  IF w.conns[c].driver
        THEN [w1 EXCEPT !.open = @ - 1, !.conns[c].driver = FALSE]
        ELSE [w1 EXCEPT !.err = "AttributeError"]

\* Driver.reclaim
DriverReclaim(w, c) ==
    IF total_connections(w) <= max_connections
    THEN IF w.conns[c].closed
         THEN [w EXCEPT !.open = @ - 1]
         ELSE [w EXCEPT !.reclaimed = Append(@, c)]
    ELSE IF w.conns[c].driver
         THEN LET w1 == ConnClose(w, c)
              IN  IF w1.err = "none" THEN [w1 EXCEPT !.open = @ - 1] ELSE w1
         ELSE w

\* Connection.reclaim
ConnReclaim(w, c) ==
    IF w.conns[c].driver THEN DriverReclaim(w, c) ELSE w

\* AsyncResponseIter.close
IterClose(w) ==
    LET w1 == [w EXCEPT !.sclosed = TRUE]
    IN  IF w1.sconn # 0
        THEN LET w2 == ConnClose(w1, w1.sconn)
             IN  IF w2.err = "none" THEN [w2 EXCEPT !.sconn = 0] ELSE w2
        ELSE w1

\* term with its two tests in the other order: recycle wins over force_close.
TermRecycleFirst(w, fc, rc) ==
    LET w1 == [w EXCEPT !.sclosed = TRUE]
    IN  IF rc
        THEN IF w1.sconn = 0
             THEN [w1 EXCEPT !.err = "AttributeError"]
             ELSE ConnReclaim(w1, w1.sconn)
        ELSE IF fc THEN IterClose(w1) ELSE w1

\* AsyncResponseIter.term: the channel-disposition policy.  fc and rc are
\* the flags the stream copied from its channel when it was created.
Term(w, fc, rc) ==
    LET w1 == [w EXCEPT !.sclosed = TRUE]
    IN  IF fc THEN IterClose(w1)
        ELSE IF rc
             THEN IF w1.sconn = 0
                  THEN [w1 EXCEPT !.err = "AttributeError"]
                  ELSE ConnReclaim(w1, w1.sconn)
             ELSE w1

Init ==
    /\ connecting = 0
    /\ open = 0
    /\ reclaimed = <<>>
    /\ client_session = TRUE
    /\ conns = <<>>
    /\ streams = <<>>
    /\ held = {}
    /\ result = [op |-> "init", err |-> "none", conn |-> 0]
    /\ tasks = [t \in Tasks |-> "idle"]

\* A world written back to the pool's variables.
Commit(w) ==
    /\ connecting' = w.connecting
    /\ open' = w.open
    /\ reclaimed' = w.reclaimed
    /\ conns' = w.conns

\* The stream record after a call that ran for it in world w.
Rebind(s, w) == [s EXCEPT !.closed = w.sclosed, !.conn = w.sconn]

\* The consumer of stream s is suspended in fetch_data: it awaits the queue
\* while the _parse_data task awaits the transport.
Suspended(s) == s.pc = "waiting" /\ s.queue = <<>> /\ s.parsing > 0

\* History: stream s remembers that its live channel c was closed by a caller
\* while its consumer was suspended.
Cut(s, c) ==
    [s EXCEPT !.cut = @ \/ (s.ws = c /\ Suspended(s) /\ ~conns[c].closed)]

\* Driver.connect, run to completion by one caller (op names the call the
\* caller made: recycle falls back to connect).  _connecting is raised
\* before the transport connect and lowered in the finally clause, so it is
\* back at its old value when the call ends.
ConnectBody(op, fc, rc) ==
    /\ IF connecting + open <= max_connections
       THEN IF client_session
            THEN /\ conns' = Append(conns, NewConn(fc, rc))
                 /\ open' = open + 1
                 /\ held' = held \cup {Len(conns) + 1}
                 /\ result' = [op |-> op, err |-> "none", conn |-> Len(conns) + 1]
            ELSE /\ result' = [op |-> op, err |-> "AttributeError", conn |-> 0]
                 /\ UNCHANGED <<conns, open, held>>
       ELSE /\ result' = [op |-> op, err |-> "RuntimeError", conn |-> 0]
            /\ UNCHANGED <<conns, open, held>>
    /\ UNCHANGED <<connecting, reclaimed, client_session, streams>>

Connect(fc, rc) == ConnectBody("connect", fc, rc)

\* Driver.connect when the transport's connect raises: the finally clause
\* lowers _connecting again and _open_connections is not touched.
ConnectFails ==
    /\ connecting + open <= max_connections
    /\ client_session
    /\ result' = [op |-> "connect", err |-> "TransportError", conn |-> 0]
    /\ UNCHANGED <<connecting, open, reclaimed, client_session, conns, streams, held>>

\* The loop of Driver.recycle: pops entries until one is not closed.
\* conn is the loop variable as the loop leaves it.
RECURSIVE Drain(_, _)
Drain(w, conn) ==
    IF w.reclaimed = <<>> THEN [w |-> w, conn |-> conn]
    ELSE LET c == Head(w.reclaimed)
             w1 == [w EXCEPT !.reclaimed = Tail(@)]
         IN  IF ~w.conns[c].closed
             THEN [w |-> w1, conn |-> c]
             ELSE Drain([w1 EXCEPT !.open = @ - 1], c)

\* Driver.recycle
Recycle(fc, rc) ==
    IF reclaimed # <<>>
    THEN LET r == Drain(World(NoStream), 0)
         IN  /\ Commit(r.w)
             /\ held' = held \cup {r.conn}
             /\ result' = [op |-> "recycle", err |-> "none", conn |-> r.conn]
             /\ UNCHANGED <<client_session, streams>>
    ELSE IF connecting + open < max_connections
         THEN ConnectBody("recycle", fc, rc)
         ELSE /\ result' = [op |-> "recycle", err |-> "UnboundLocalError",
                            conn |-> 0]
              /\ UNCHANGED <<connecting, open, reclaimed, client_session,
                             conns, streams, held>>

\* Driver.reclaim called by the caller holding channel c.
Reclaim(c) ==
    /\ c \in held
    /\ LET w == DriverReclaim(World(NoStream), c)
       IN  /\ Commit(w)
           /\ result' = [op |-> "reclaim", err |-> w.err, conn |-> 0]
    /\ held' = held \ {c}
    /\ UNCHANGED <<client_session, streams>>

\* Connection.close called by a caller that has a reference to channel c.
Close(c) ==
    /\ c \in Chans
    /\ LET w == ConnClose(World(NoStream), c)
       IN  /\ Commit(w)
           /\ result' = [op |-> "close", err |-> w.err, conn |-> 0]
    /\ streams' = [i \in Strms |-> Cut(streams[i], c)]
    /\ UNCHANGED <<client_session, held>>

\* The loop of Driver.close: an exception from Connection.close ends it.
RECURSIVE CloseAll(_)
CloseAll(w) ==
    IF w.reclaimed = <<>> THEN w
    ELSE LET w1 == ConnClose([w EXCEPT !.reclaimed = Tail(@)], Head(w.reclaimed))
         IN  IF w1.err = "none" THEN CloseAll(w1) ELSE w1

\* Driver.close
DriverClose ==
    LET w == CloseAll(World(NoStream))
    IN  /\ Commit(w)
        /\ IF w.err # "none"
           THEN /\ result' = [op |-> "shutdown", err |-> w.err, conn |-> 0]
                /\ UNCHANGED client_session
           ELSE IF client_session
                THEN /\ client_session' = FALSE
                     /\ result' = [op |-> "shutdown", err |-> "none", conn |-> 0]
                ELSE /\ result' = [op |-> "shutdown", err |-> "AttributeError",
                                   conn |-> 0]
                     /\ UNCHANGED client_session
        /\ UNCHANGED <<streams, held>>

\* Connection._finalize_message: the error it raises, "none" when it
\* returns the framed bytes.
FinalizeMessage(processor, session) ==
    IF processor = "session" /\ session = "None" THEN "RuntimeError" ELSE "none"

\* Connection.submit by the caller holding channel c.
Submit(c, processor, session) ==
    /\ c \in held
    /\ ~conns[c].closed
    /\ ~conns[c].dropped
    /\ IF FinalizeMessage(processor, session) = "none"
       THEN /\ conns' = [conns EXCEPT ![c].sent = Append(@, "eval")]
            /\ streams' = Append(streams, NewStream(c))
            /\ result' = [op |-> "submit", err |-> "none", conn |-> 0]
       ELSE /\ result' = [op |-> "submit", err |-> "RuntimeError", conn |-> 0]
            /\ UNCHANGED <<conns, streams>>
    /\ UNCHANGED <<connecting, open, reclaimed, client_session, held>>

\* What one run of term did to channel c, read off the worlds before and
\* after it.
Effect(w0, w1, c) ==
    IF Len(w1.reclaimed) > Len(w0.reclaimed) THEN "queued"
    ELSE IF w1.conns[c].closed /\ ~w0.conns[c].closed THEN "closed"
    ELSE "none"

\* term as _parse_data awaits it: the stream and world after it, with the
\* disposition logged.
RunTerm(s, w) ==
    LET w1 == Term(w, conns[s.ws].force_close, conns[s.ws].recycle)
    IN  [s |-> [Rebind(s, w1) EXCEPT !.disp = Append(@, Effect(w, w1, s.ws))],
         w |-> w1]

\* The test of _parse_data without 204 in its list.
IsResultNo204(code) == code \in {200, 206}

\* _parse_data: the status codes whose Message is put on the response queue.
IsResult(code) == code \in {200, 206, 204}

\* The test of _parse_data with the 206 exception lost.
EndsStreamAlways(code) == TRUE

\* _parse_data: the buffered codes that end the exchange.
EndsStream(code) == code # 206

\* AsyncResponseIter._parse_data from the frame on: s already holds the
\* frame in s.frames, n is its position.
ParseData(s, w, code) ==
    LET n == Len(s.frames)
    IN  IF IsResult(code)
        THEN LET s1 == [s EXCEPT !.queue = Append(@, Msg(code, n))]
             IN  IF EndsStream(code)
                 THEN LET r == RunTerm(s1, w)
                      IN  IF r.w.err = "none"
                          THEN [s |-> [r.s EXCEPT !.queue = Append(@, NoneMsg)],
                                w |-> r.w]
                          ELSE [s |-> [r.s EXCEPT !.taskErr = r.w.err], w |-> r.w]
                 ELSE [s |-> s1, w |-> w]
        ELSE IF code = 407
             \* self._authenticate: AsyncResponseIter defines no such method
             THEN [s |-> [s EXCEPT !.taskErr = "AttributeError"], w |-> w]
             ELSE LET r == RunTerm(s, w)
                  IN  [s |-> [r.s EXCEPT !.taskErr =
                                IF r.w.err = "none" THEN "RuntimeError" ELSE r.w.err],
                       w |-> r.w]

\* The _parse_data task of stream s gets the next frame from the transport.
\* The transport is closed by Connection.close alone, which sets the
\* channel's closed flag with it, so the flag tells whether frames can come.
Receive(s, code) ==
    /\ s \in Strms
    /\ streams[s].parsing > 0
    /\ ~conns[streams[s].ws].closed
    /\ ~conns[streams[s].ws].dropped
    /\ LET s0 == [streams[s] EXCEPT !.parsing = @ - 1, !.frames = Append(@, code)]
           r == ParseData(s0, World(s0), code)
       IN  /\ Commit(r.w)
           /\ streams' = [streams EXCEPT ![s] = r.s]
    /\ UNCHANGED <<client_session, held, result>>

\* The _parse_data task of stream s reads from a closed or failed
\* transport: receive gives a close or error message with no frame in it, and
\* decoding it raises.
ReceiveClosed(s) ==
    /\ s \in Strms
    /\ streams[s].parsing > 0
    /\ conns[streams[s].ws].closed \/ conns[streams[s].ws].dropped
    /\ streams' = [streams EXCEPT ![s].parsing = @ - 1,
                                  ![s].taskErr = "AttributeError"]
    /\ UNCHANGED <<connecting, open, reclaimed, client_session, conns, held, result>>

\* What the consumer sees when fetch_data gives it queue entry m: the
\* Message, or end-of-stream (StopAsyncIteration) for None.
Deliver(s, m) == [s EXCEPT !.queue = Tail(@), !.emitted = Append(@, m)]

\* AsyncResponseIter.__anext__ / fetch_data up to its suspension point.
Pull(s) ==
    /\ s \in Strms
    /\ streams[s].pc = "idle"
    /\ IF streams[s].queue # <<>>
       THEN streams' = [streams EXCEPT ![s] = Deliver(@, Head(@.queue))]
       ELSE streams' = [streams EXCEPT ![s].parsing = @ + 1, ![s].pc = "waiting"]
    /\ UNCHANGED <<connecting, open, reclaimed, client_session, conns, held, result>>

\* fetch_data resumes: the queue it awaits has an entry.
Wake(s) ==
    /\ s \in Strms
    /\ streams[s].pc = "waiting"
    /\ streams[s].queue # <<>>
    /\ streams' = [streams EXCEPT ![s] = [Deliver(@, Head(@.queue)) EXCEPT !.pc = "idle"]]
    /\ UNCHANGED <<connecting, open, reclaimed, client_session, conns, held, result>>

\* AsyncResponseIter.close called by the consumer.
StreamClose(s) ==
    /\ s \in Strms
    /\ LET w == IterClose(World(streams[s]))
       IN  /\ Commit(w)
           /\ streams' = [streams EXCEPT
                             ![s] = Rebind(Cut(@, streams[s].ws), w)]
           /\ result' = [op |-> "stream.close", err |-> w.err, conn |-> 0]
    /\ UNCHANGED <<client_session, held>>

\* The model's bounds on what the callers and the server do.
MayConnect == Len(conns) < MaxChans \/ ~client_session
                 \/ connecting + open > max_connections
MaySubmit(p, ss) == Len(streams) < MaxStreams \/ FinalizeMessage(p, ss) # "none"

Next ==
    \/ \E fc \in Flags, rc \in Flags :
          MayConnect /\ Connect(fc, rc) /\ UNCHANGED tasks
    \/ ConnectFails /\ UNCHANGED tasks
    \/ \E fc \in Flags, rc \in Flags :
          (reclaimed # <<>> \/ MayConnect) /\ Recycle(fc, rc) /\ UNCHANGED tasks
    \/ \E c \in Chans : Reclaim(c) /\ UNCHANGED tasks
    \/ \E c \in Chans : Close(c) /\ UNCHANGED tasks
    \/ DriverClose /\ UNCHANGED tasks
    \/ \E c \in Chans, p \in Processors, ss \in Sessions :
          MaySubmit(p, ss) /\ Submit(c, p, ss) /\ UNCHANGED tasks
    \/ \E s \in Strms : Pull(s) /\ UNCHANGED tasks
    \/ \E s \in Strms : Wake(s) /\ UNCHANGED tasks
    \/ \E s \in Strms, code \in Codes :
          FramesSent < PoolFrames /\ Receive(s, code) /\ UNCHANGED tasks
    \/ \E s \in Strms : ReceiveClosed(s) /\ UNCHANGED tasks
    \/ \E s \in Strms : StreamClose(s) /\ UNCHANGED tasks

Spec == Init /\ [][Next]_vars

\* ------------------------------------------------- one request's lifetime
\* The pool right after a caller submitted a request on channel 1: n
\* channels were acquired by connect (the first with any flags, the others
\* with connect's defaults) and Connection.submit returned stream 1.
InitStream ==
    \E n \in 1..MaxChans, fc \in Flags, rc \in Flags :
       /\ connecting = 0
       /\ open = n
       /\ reclaimed = <<>>
       /\ client_session = TRUE
       /\ conns = [i \in 1..n |->
                     IF i = 1 THEN [NewConn(fc, rc) EXCEPT !.sent = <<"eval">>]
                     ELSE NewConn(TRUE, FALSE)]
       /\ streams = <<NewStream(1)>>
       /\ held = 1..n
       /\ result = [op |-> "submit", err |-> "none", conn |-> 0]
       /\ tasks = [t \in Tasks |-> "idle"]

\* The transport of the stream's channel fails or its peer disconnects.
Disconnect(c) ==
    /\ c \in Chans
    /\ \E s \in Strms : streams[s].ws = c
    /\ ~conns[c].closed
    /\ ~conns[c].dropped
    /\ conns' = [conns EXCEPT ![c].dropped = TRUE]
    /\ UNCHANGED <<connecting, open, reclaimed, client_session, streams, held, result>>

\* The consumer pulls the stream or closes it, the server sends frames or
\* drops the connection, and callers close the channels they hold.
NextStream ==
    \/ \E s \in Strms : Pull(s) /\ UNCHANGED tasks
    \/ \E s \in Strms : Wake(s) /\ UNCHANGED tasks
    \/ \E s \in Strms, code \in Codes :
          FramesSent < MaxFrames /\ Receive(s, code) /\ UNCHANGED tasks
    \/ \E s \in Strms : ReceiveClosed(s) /\ UNCHANGED tasks
    \/ \E s \in Strms : StreamClose(s) /\ UNCHANGED tasks
    \/ \E c \in Chans : Close(c) /\ UNCHANGED tasks
    \/ \E c \in Chans : Disconnect(c) /\ UNCHANGED tasks

SpecStream == InitStream /\ [][NextStream]_vars

\* ------------------------------------------------------------ the claims
\* Everything stream s has handed or will hand to its consumer, in order:
\* the entries delivered so far, then those still on the response queue.
Past(s) == s.emitted \o s.queue

Last(f) == f[Len(f)]
IsError(code) == code \notin {200, 204, 206, 407}
\* f is k >= 0 frames with status 206.
AllPartial(f) == \A i \in 1..Len(f) : f[i] = 206
\* f is k >= 0 frames with status 206 and then one frame with status 200.
PartialThenFinal(f) == f # <<>> /\ Last(f) = 200 /\ AllPartial(SubSeq(f, 1, Len(f) - 1))
\* The stream has processed a terminal or an error frame.
Ended(f) == \E i \in 1..Len(f) : f[i] \in {200, 204} \/ IsError(f[i])
\* The Messages of frames 1..k, all with status 206.
Partials(k) == [i \in 1..k |-> Msg(206, i)]
\* The consumer's pull is suspended and nothing is left to resume it.
Hung(s) == s.pc = "waiting" /\ s.queue = <<>> /\ s.parsing = 0
AuthSent(c) == Cardinality({i \in 1..Len(conns[c].sent) : conns[c].sent[i] = "authentication"})

\* C1: whatever calls were made on the pool, one at a time, connecting + open
\* is at most maxConnections.
C1_WithinLimit == connecting + open <= max_connections

\* C2: the channel Driver.recycle returns is never closed.
C2_RecycleReturnsLive ==
    [][(\E fc \in Flags, rc \in Flags : Recycle(fc, rc))
        => (result'.err = "none" => ~conns'[result'.conn].closed)]_vars

\* C3: a channel created with forceClose is never in the reclaimed-idle
\* queue, whatever its recycle flag, and it is closed once its stream has
\* processed a terminal or an error frame.
C3_ForceCloseNeverQueued ==
    \A i \in Strms :
        LET s == streams[i] IN
        conns[s.ws].force_close =>
            /\ ~InQueue(s.ws)
            /\ Ended(s.frames) => conns[s.ws].closed

C3_Witness ==
    \E i \in Strms :
        LET s == streams[i] IN
        /\ conns[s.ws].force_close /\ conns[s.ws].recycle
        /\ s.frames # <<>> /\ IsError(Last(s.frames))
        /\ s.disp = <<"closed">>

\* C4: when the stream of a live channel with recycle and without forceClose
\* processes a terminal frame, the channel is appended to the reclaimed-idle
\* queue (the first half of the claim: the recycle call that follows is not
\* reached when this fails).
C4_TerminalFrameQueues ==
    \A i \in Strms :
        LET s == streams[i] IN
        (conns[s.ws].recycle /\ ~conns[s.ws].force_close
            /\ s.frames # <<>> /\ Last(s.frames) \in {200, 204}
            /\ AllPartial(SubSeq(s.frames, 1, Len(s.frames) - 1)))
        => s.disp = <<"queued">>

\* C5: for k frames with status 206 and then one with status 200, the
\* consumer is handed the k+1 Messages in the order the server sent them and
\* then end-of-stream; the disposition has not run while only 206 frames
\* were processed and has run once the 200 frame was.
C5_PartialsThenFinal ==
    \A i \in Strms :
        LET s == streams[i]
            k == Len(s.frames)
        IN  /\ AllPartial(s.frames) =>
                Past(s) = Partials(k) /\ s.disp = <<>>
            /\ PartialThenFinal(s.frames) =>
                /\ Past(s) = Partials(k - 1) \o <<Msg(200, k), NoneMsg>>
                /\ Len(s.disp) = 1

C5_Witness ==
    \E i \in Strms :
        LET s == streams[i] IN
        /\ s.frames = <<206, 206, 200>>
        /\ s.emitted = <<Msg(206, 1), Msg(206, 2), Msg(200, 3), NoneMsg>>
        /\ s.queue = <<>>

C7_AuthChallengeTransparent ==
    \A i \in Strms :
        LET s == streams[i] IN
        (s.frames # <<>> /\ s.frames[1] = 407) =>
            /\ AuthSent(s.ws) = 1
            /\ s.taskErr = "none"
            /\ s.frames = <<407, 200>> => Past(s) = <<Msg(200, 2), NoneMsg>>

\* C8: once the stream has read an error frame, the consumer's pending pull
\* does not hang: it is not left suspended with nothing to resume it.
C8_ErrorFrameEndsPull ==
    \A i \in Strms :
        LET s == streams[i] IN
        (s.frames # <<>> /\ IsError(Last(s.frames))) => ~Hung(s)

\* C9: over the life of a stream the disposition closes or reclaims the
\* channel at most once, and it has run if a terminal or an error frame was
\* processed.
C9_DisposedOnce ==
    \A i \in Strms :
        LET s == streams[i] IN
        /\ Cardinality({j \in 1..Len(s.disp) : s.disp[j] # "none"}) <= 1
        /\ Ended(s.frames) => s.disp # <<>>

\* C10: Connection.close raises no error, also when the channel is already
\* closed, whether the caller or ResponseStream.close calls it.
C10_CloseNeverRaises ==
    result.op \in {"close", "stream.close"} => result.err = "none"

\* The channels of the reclaimed queue whose Connection is not closed.
LiveQueued == {i \in 1..Len(reclaimed) : ~conns[reclaimed[i]].closed}

\* C11: every channel in the reclaimed queue is still counted in open: open
\* is at least the number of queued channels and is never negative, after any
\* sequence of pool, channel and stream operations.
C11_QueuedCountedInOpen ==
    /\ open >= Len(reclaimed)
    /\ open >= 0

\* C12: Driver.reclaim of a live channel while connecting + open exceeds
\* max_connections closes the channel, does not append it to the reclaimed
\* queue whatever its recycle flag, and lowers open by exactly one.
C12_ShedLowersOpenByOne ==
    [][\A c \in Chans :
          (/\ Reclaim(c)
           /\ ~conns[c].closed
           /\ connecting + open > max_connections)
          => (/\ conns'[c].closed
              /\ reclaimed' = reclaimed
              /\ open' = open - 1)]_vars

\* C13: Driver.recycle called with no live channel in the queue (the queue is
\* empty or holds only closed entries) while connecting + open is at least
\* max_connections fails with the error connect raises when over capacity,
\* and returns no channel.
C13_RecycleExhaustedRaises ==
    [][(/\ \E fc \in Flags, rc \in Flags : Recycle(fc, rc)
        /\ LiveQueued = {}
        /\ connecting + open >= max_connections)
       => result'.err = "RuntimeError"]_vars

\* C14: Connection.submit with processor "session" and an absent or empty
\* session id fails before anything is sent: nothing is sent on the transport
\* and no response stream is created.
C14_SessionRequiresId ==
    [][\A c \in Chans, ss \in {"None", ""} :
          Submit(c, "session", ss)
          => (/\ result'.err # "none"
              /\ conns'[c].sent = conns[c].sent
              /\ streams' = streams)]_vars

\* C15: when ResponseStream.close or Connection.close is called while the
\* consumer's pull on the stream is suspended waiting for a frame, the pull
\* completes with end-of-stream or an error; it is never left waiting with
\* neither a message nor a task that could produce one.
C15_CloseUnblocksPull ==
    \A s \in Strms : streams[s].cut => ~Hung(streams[s])

\* The _parse_data task of stream s read the failure of its channel's
\* transport: the transport dropped and the task ended on it, every frame
\* before it being partial.
SawTransportFailure(s) ==
    /\ conns[s.ws].dropped
    /\ s.taskErr # "none"
    /\ AllPartial(s.frames)

\* C16: when the transport fails or disconnects while the stream is
\* receiving, the stream's channel ends up closed and is not in the reclaimed
\* queue, whatever its recycle and force_close flags.
C16_TransportFailureClosesChannel ==
    \A s \in Strms :
        SawTransportFailure(streams[s])
        => (conns[streams[s].ws].closed /\ ~InQueue(streams[s].ws))

\* Stream s has given its channel back to the pool through disposition.
Returned(s) == \E i \in 1..Len(s.disp) : s.disp[i] = "queued"

\* C17: once a stream has returned its channel to the pool through
\* disposition, a later close of or pull on that stream neither closes nor
\* re-enqueues the channel: the channel and the reclaimed queue stay as they
\* were.
C17_ReturnedChannelUntouched ==
    [][\A s \in Strms :
          (Returned(streams[s]) /\ (StreamClose(s) \/ Pull(s)))
          => (/\ conns'[streams[s].ws] = conns[streams[s].ws]
              /\ reclaimed' = reclaimed)]_vars

\* C18: Driver.close called in any reachable pool state ends with the
\* reclaimed queue empty and every channel that was in the queue closed, and
\* leaves every channel that was not in the queue as it was.
C18_ShutdownDrainsQueue ==
    [][DriverClose
       => (/\ reclaimed' = <<>>
           /\ \A c \in Chans :
                 IF InQueue(c) THEN conns'[c].closed
                               ELSE conns'[c] = conns[c])]_vars

(***************************************************************************)
(* Concurrent Driver.connect calls.  A connect coroutine runs from its     *)
(* call to "await ws_connect" without yielding, and from the return of     *)
(* ws_connect to its own return without yielding; other coroutines run     *)
(* only while it is suspended in ws_connect.                               *)
(***************************************************************************)

\* A connect whose capacity test does not see the calls still in ws_connect.
ConnectBeginOpenOnly(t) ==
    /\ tasks[t] = "idle"
    /\ client_session
    /\ IF open <= max_connections
       THEN /\ connecting' = connecting + 1
            /\ tasks' = [tasks EXCEPT ![t] = "awaiting"]
            /\ UNCHANGED result
       ELSE /\ tasks' = [tasks EXCEPT ![t] = "rejected"]
            /\ result' = [op |-> "connect", err |-> "RuntimeError", conn |-> 0]
            /\ UNCHANGED connecting
    /\ UNCHANGED <<open, reclaimed, client_session, conns, streams, held>>

\* Task t calls Driver.connect and runs up to the await: the capacity test and
\* the increment of _connecting, or the raise when over capacity.
ConnectBegin(t) ==
    /\ tasks[t] = "idle"
    /\ client_session
    /\ IF connecting + open <= max_connections
       THEN /\ connecting' = connecting + 1
            /\ tasks' = [tasks EXCEPT ![t] = "awaiting"]
            /\ UNCHANGED result
       ELSE /\ tasks' = [tasks EXCEPT ![t] = "rejected"]
            /\ result' = [op |-> "connect", err |-> "RuntimeError", conn |-> 0]
            /\ UNCHANGED connecting
    /\ UNCHANGED <<open, reclaimed, client_session, conns, streams, held>>

\* ws_connect returns to task t: _open_connections is raised, the finally
\* clause lowers _connecting, and the new Connection is returned.
ConnectResume(t, fc, rc) ==
    /\ tasks[t] = "awaiting"
    /\ open' = open + 1
    /\ connecting' = connecting - 1
    /\ conns' = Append(conns, NewConn(fc, rc))
    /\ held' = held \cup {Len(conns) + 1}
    /\ tasks' = [tasks EXCEPT ![t] = "done"]
    /\ result' = [op |-> "connect", err |-> "none", conn |-> Len(conns) + 1]
    /\ UNCHANGED <<reclaimed, client_session, streams>>

\* A connect that fails after admission, without the finally clause.
ConnectRaiseNoFinally(t) ==
    /\ tasks[t] = "awaiting"
    /\ tasks' = [tasks EXCEPT ![t] = "failed"]
    /\ result' = [op |-> "connect", err |-> "TransportError", conn |-> 0]
    /\ UNCHANGED <<connecting, open, reclaimed, client_session, conns, streams, held>>

\* ws_connect raises in task t: the finally clause lowers _connecting and the
\* exception leaves connect.
ConnectRaise(t) ==
    /\ tasks[t] = "awaiting"
    /\ connecting' = connecting - 1
    /\ tasks' = [tasks EXCEPT ![t] = "failed"]
    /\ result' = [op |-> "connect", err |-> "TransportError", conn |-> 0]
    /\ UNCHANGED <<open, reclaimed, client_session, conns, streams, held>>

\* Tasks race in connect while callers close the channels they were given.
NextRace ==
    \/ \E t \in Tasks : ConnectBegin(t)
    \/ \E t \in Tasks, fc \in Flags, rc \in Flags : ConnectResume(t, fc, rc)
    \/ \E t \in Tasks : ConnectRaise(t)
    \/ \E c \in Chans : Close(c) /\ UNCHANGED tasks

SpecRace == Init /\ [][NextRace]_vars

\* The tasks suspended in ws_connect, and the channels not closed.
Awaiting == {t \in Tasks : tasks[t] = "awaiting"}
Live == {c \in Chans : ~conns[c].closed}

\* C19: a Driver.connect that fails leaves the pool's counters as they were
\* before the call: a call rejected for capacity changes nothing, and a call
\* whose transport connect fails gives back its unit of connecting and adds
\* nothing to open.  So connecting counts exactly the calls still suspended
\* in ws_connect and open counts exactly the live channels, however many
\* calls have failed.
C19_FailedConnectLeavesCounters ==
    /\ connecting = Cardinality(Awaiting)
    /\ open = Cardinality(Live)

\* A rejected call, a failed call and a successful one have all happened.
C19_Witness ==
    /\ \E t \in Tasks : tasks[t] = "rejected"
    /\ \E t \in Tasks : tasks[t] = "failed"
    /\ \E t \in Tasks : tasks[t] = "done"

\* C20: with Driver.connect calls that interleave only at the ws_connect
\* suspension point, the capacity test and the increment of connecting are
\* one atomic step, so connecting + open never exceeds max_connections + 1
\* and the calls in flight plus the live channels never number more than the
\* max_connections + 1 that calls made one after another can reach.
C20_RaceAdmitsNoMore ==
    /\ connecting + open <= max_connections + 1
    /\ Cardinality(Awaiting) + Cardinality(Live) <= max_connections + 1

\* Calls are suspended in ws_connect together, the pool is at the most a
\* sequential run reaches, and a further call has been turned away.
C20_Witness ==
    /\ Cardinality(Awaiting) >= 2
    /\ connecting + open = max_connections + 1
    /\ \E t \in Tasks : tasks[t] = "rejected"

====
